---- MODULE Spec2Model ----
(***************************************************************************)
(* The report generator of the SPC pipeline (src/report_generator.py):     *)
(* the content normalizer preprocess_markdown, the line-oriented block     *)
(* parser parse_markdown_to_html, the inline formatter format_inline and   *)
(* the document assembler render_markdown_to_html with its tool wrapper    *)
(* aggregator_output.                                                      *)
(*                                                                         *)
(* A Python str is a sequence of one-character strings.  Every regular     *)
(* expression of the source is an operator XxxAt(s, i) giving the match    *)
(* that re finds when it tries the pattern at position i (greedy and lazy  *)
(* quantifiers, backtracking, lookaround as written in the pattern), and   *)
(* re.sub is the left-to-right scan ReSub over it.                         *)
(***************************************************************************)
EXTENDS Integers, Sequences, FiniteSets, TLC

VARIABLES
    pc,               \* where the call stands
    arg,              \* the argument of the call: its type and, for a str, its value
    content,          \* parse_markdown_to_html: the normalized content
    lines,            \* content.split('\n')
    idx,              \* how many lines the loop has taken
    html_parts,       \* the fragments appended so far
    in_list,          \* inside an unordered list
    in_ordered_list,  \* inside an ordered list
    html_body,        \* what parse_markdown_to_html returns
    text,             \* format_inline: the text as rewritten so far
    rule,             \* how many substitutions format_inline has applied
    html_document,    \* render_markdown_to_html: the local, bound or not
    printed,          \* what the except clauses have printed
    outcome,          \* how the tool call ended: a value returned or an exception
    tool,             \* which agent tool runs
    env,              \* which settings of config.env are set
    waited,           \* how many seconds the poll loop has slept
    run_status,       \* run.status as the last runs.get returned it
    thread,           \* the messages of the thread, oldest first
    calls,            \* the clients built and the service operations called
    response,         \* the text the tool has extracted
    store             \* the storage account: its containers and blobs

\* the state of the agent tools and of the report writer
toolVars == <<tool, env, waited, run_status, thread, calls, response, store>>

vars == <<pc, arg, content, lines, idx, html_parts, in_list, in_ordered_list,
          html_body, text, rule, html_document, printed, outcome, toolVars>>

\* no agent tool and no report writer has run
ToolsIdle ==
    /\ tool = "none"
    /\ env = {}
    /\ waited = 0
    /\ run_status = "none"
    /\ thread = <<>>
    /\ calls = {}
    /\ response = <<>>
    /\ store = [containers |-> {}, blobs |-> <<>>]

(***************************************************************************)
(* Characters and strings                                                  *)
(***************************************************************************)
\* the character at 1-based position i, "" outside the string
At(s, i) == IF i >= 1 /\ i <= Len(s) THEN s[i] ELSE ""

\* s[i:j] of Python with 1-based i and exclusive j
Slice(s, i, j) == SubSeq(s, i, j - 1)

\* whether t occurs in s at position i
StartsAt(s, i, t) ==
    /\ i >= 1
    /\ i + Len(t) - 1 <= Len(s)
    /\ \A k \in 1..Len(t) : s[i + k - 1] = t[k]

\* the characters \s and str.strip() treat as whitespace
IsSpace(c) == c \in {" ", "\n", "\t"}

\* the characters \d matches
IsDigit(c) == c \in {"0", "1", "2", "3", "4", "5", "6", "7", "8", "9"}

\* the class [^\s<>"'] of both URL patterns
IsUrlChar(c) == c # "" /\ ~IsSpace(c) /\ c \notin {"<", ">", "\"", "'"}

Quotes == {"\"", "'"}

\* the grave accent (backtick) character, which a TLA+ string cannot hold
Grave == "grave"

\* str.lower() on the letters that the patterns name (re.IGNORECASE)
Lower(c) ==
    CASE c = "H" -> "h" [] c = "T" -> "t" [] c = "P" -> "p" [] c = "S" -> "s"
      [] c = "N" -> "n" [] c = "G" -> "g" [] c = "J" -> "j" [] c = "E" -> "e"
      [] c = "I" -> "i" [] c = "F" -> "f" [] c = "B" -> "b" [] c = "M" -> "m"
      [] c = "W" -> "w" [] c = "V" -> "v"
      [] OTHER -> c

\* whether t occurs in s at position i, ignoring case
StartsAtNoCase(s, i, t) ==
    /\ i >= 1
    /\ i + Len(t) - 1 <= Len(s)
    /\ \A k \in 1..Len(t) : Lower(s[i + k - 1]) = t[k]

\* the first position >= i that holds no whitespace (Len(s)+1 if none)
RECURSIVE SpaceEnd(_, _)
SpaceEnd(s, i) ==
    IF i <= Len(s) /\ IsSpace(s[i]) THEN SpaceEnd(s, i + 1) ELSE i

\* the first position >= i that holds no digit
RECURSIVE DigitEnd(_, _)
DigitEnd(s, i) ==
    IF i <= Len(s) /\ IsDigit(s[i]) THEN DigitEnd(s, i + 1) ELSE i

\* the first position >= i that holds no URL character
RECURSIVE UrlEnd(_, _)
UrlEnd(s, i) ==
    IF i <= Len(s) /\ IsUrlChar(s[i]) THEN UrlEnd(s, i + 1) ELSE i

\* the first position >= i that holds the character c (Len(s)+1 if none)
FindChar(s, i, c) ==
    IF i > Len(s) THEN i
    ELSE CHOOSE k \in i..(Len(s) + 1) :
            /\ k = Len(s) + 1 \/ s[k] = c
            /\ \A j \in i..(k - 1) : s[j] # c

\* the first position >= i where t occurs, 0 if none; a newline stops the
\* search when dot is TRUE (the pattern walks there with ".")
FindStr(s, i, t, dot) ==
    LET stop(k) == k > Len(s) \/ StartsAt(s, k, t) \/ (dot /\ s[k] = "\n")
        k == IF i > Len(s) THEN i
             ELSE CHOOSE x \in i..(Len(s) + 1) :
                     stop(x) /\ \A j \in i..(x - 1) : ~stop(j)
    IN  IF StartsAt(s, k, t) THEN k ELSE 0

\* str.strip()
RECURSIVE RStrip(_)
RStrip(s) ==
    IF Len(s) > 0 /\ IsSpace(s[Len(s)]) THEN RStrip(SubSeq(s, 1, Len(s) - 1))
    ELSE s

Strip(s) == LET r == RStrip(s) IN SubSeq(r, SpaceEnd(r, 1), Len(r))

\* str.split('\n'): the pieces between newlines, empty pieces kept
RECURSIVE SplitFrom(_, _)
SplitFrom(s, i) ==
    LET k == FindChar(s, i, "\n")
    IN  IF k > Len(s) THEN <<Slice(s, i, Len(s) + 1)>>
        ELSE <<Slice(s, i, k)>> \o SplitFrom(s, k + 1)

SplitLines(s) == SplitFrom(s, 1)

\* sep.join(parts)
RECURSIVE Join(_, _)
Join(parts, sep) ==
    IF Len(parts) = 0 THEN <<>>
    ELSE IF Len(parts) = 1 THEN parts[1]
    ELSE parts[1] \o sep \o Join(Tail(parts), sep)

\* the concatenation of a sequence of strings
Flatten(parts) == Join(parts, <<>>)

NoMatch == [end |-> 0, rep |-> <<>>]

(***************************************************************************)
(* preprocess_markdown: the four boundary-insertion substitutions          *)
(***************************************************************************)
\* r'\s*(#{2,3})\s+' tried at i, replaced by r'\n\n\1 '
HeaderBreakAt(s, i) ==
    LET j == SpaceEnd(s, i)
        h == IF StartsAt(s, j, <<"#", "#", "#">>) /\ IsSpace(At(s, j + 3)) THEN 3
             ELSE IF StartsAt(s, j, <<"#", "#">>) /\ IsSpace(At(s, j + 2)) THEN 2
             ELSE 0
    IN  IF h = 0 THEN NoMatch
        ELSE [end |-> SpaceEnd(s, j + h),
              rep |-> <<"\n", "\n">> \o Slice(s, j, j + h) \o <<" ">>]

\* BulletBreakAt with the leading \s+ taken for \n+
BulletBreakAt_NewlineOnly(s, i) ==
    LET j == SpaceEnd(s, i)
        k == SpaceEnd(s, j + 1)
    IN  IF j > i /\ (\A n \in i..(j - 1) : s[n] = "\n") /\ At(s, j) = "-"
           /\ k > j + 1 /\ StartsAt(s, k, <<"*", "*">>)
        THEN [end |-> k + 2, rep |-> <<"\n">> \o Slice(s, j, k + 2)]
        ELSE NoMatch

\* r'\s+(-\s+\*\*)' tried at i, replaced by r'\n\1'
BulletBreakAt(s, i) ==
    LET j == SpaceEnd(s, i)
        k == SpaceEnd(s, j + 1)
    IN  IF j > i /\ At(s, j) = "-" /\ k > j + 1 /\ StartsAt(s, k, <<"*", "*">>)
        THEN [end |-> k + 2, rep |-> <<"\n">> \o Slice(s, j, k + 2)]
        ELSE NoMatch

\* NumberBreakAt with a single line break as the replacement
NumberBreakAt_OneNewline(s, i) ==
    LET j == SpaceEnd(s, i)
        d == DigitEnd(s, j)
        k == SpaceEnd(s, d + 1)
    IN  IF j > i /\ d > j /\ At(s, d) = "." /\ k > d + 1
           /\ StartsAt(s, k, <<"*", "*">>)
        THEN [end |-> k + 2, rep |-> <<"\n">> \o Slice(s, j, k + 2)]
        ELSE NoMatch

\* r'\s+(\d+\.\s+\*\*)' tried at i, replaced by r'\n\n\1'
NumberBreakAt(s, i) ==
    LET j == SpaceEnd(s, i)
        d == DigitEnd(s, j)
        k == SpaceEnd(s, d + 1)
    IN  IF j > i /\ d > j /\ At(s, d) = "." /\ k > d + 1
           /\ StartsAt(s, k, <<"*", "*">>)
        THEN [end |-> k + 2, rep |-> <<"\n", "\n">> \o Slice(s, j, k + 2)]
        ELSE NoMatch

\* QuoteBreakAt matching only where the whitespace before ">" holds a line break
QuoteBreakAt_AtLineStart(s, i) ==
    LET j == SpaceEnd(s, i)
    IN  IF j > i /\ At(s, j) = ">" /\ \E k \in i..(j - 1) : At(s, k) = "\n"
        THEN [end |-> j + 1, rep |-> <<"\n", "\n", ">">>]
        ELSE NoMatch

\* r'\s+(>)' tried at i, replaced by r'\n\n\1'
QuoteBreakAt(s, i) ==
    LET j == SpaceEnd(s, i)
    IN  IF j > i /\ At(s, j) = ">"
        THEN [end |-> j + 1, rep |-> <<"\n", "\n", ">">>]
        ELSE NoMatch

(***************************************************************************)
(* format_inline: the ten inline substitutions                             *)
(***************************************************************************)
IMG_OPEN == <<"<", "i", "m", "g", " ", "s", "r", "c", "=", "\"">>

IMG_CLOSE_IMAGE ==
    <<"\"", " ", "a", "l", "t", "=", "\"", "I", "m", "a", "g", "e", "\"", " ", "c", "l", "a", "s", "s", "=", "\"", "e", "m", "b", "e", "d", "d", "e", "d", "-", "i", "m", "a", "g", "e", "\"", ">">>

IMG_CLOSE_EMBEDDED ==
    <<"\"", " ", "a", "l", "t", "=", "\"", "E", "m", "b", "e", "d", "d", "e", "d", " ", "c", "o", "n", "t", "e", "n", "t", "\"", " ", "c", "l", "a", "s", "s", "=", "\"", "e", "m", "b", "e", "d", "d", "e", "d", "-", "i", "m", "a", "g", "e", "\"", ">">>

MATH_INLINE_OPEN ==
    <<"<", "s", "p", "a", "n", " ", "c", "l", "a", "s", "s", "=", "\"", "m", "a", "t", "h", "-", "i", "n", "l", "i", "n", "e", "\"", ">", "\\", "(">>

MATH_INLINE_CLOSE == <<"\\", ")", "<", "/", "s", "p", "a", "n", ">">>

MATH_DISPLAY_OPEN ==
    <<"<", "d", "i", "v", " ", "c", "l", "a", "s", "s", "=", "\"", "m", "a", "t", "h", "-", "d", "i", "s", "p", "l", "a", "y", "\"", ">", "\\", "[">>

MATH_DISPLAY_CLOSE == <<"\\", "]", "<", "/", "d", "i", "v", ">">>

STRONG_OPEN == <<"<", "s", "t", "r", "o", "n", "g", ">">>

STRONG_CLOSE == <<"<", "/", "s", "t", "r", "o", "n", "g", ">">>

EM_OPEN == <<"<", "e", "m", ">">>

EM_CLOSE == <<"<", "/", "e", "m", ">">>

CODE_OPEN == <<"<", "c", "o", "d", "e", ">">>

CODE_CLOSE == <<"<", "/", "c", "o", "d", "e", ">">>

SIGMA_ENTITY == <<"&", "s", "i", "g", "m", "a", ";">>

\* where the scheme r'https?://' ends when tried at i, 0 if it does not match
SchemeEnd(s, i, nocase) ==
    LET low == [k \in 1..Len(s) |-> IF nocase THEN Lower(s[k]) ELSE s[k]]
    IN  IF StartsAt(low, i, <<"h", "t", "t", "p", "s", ":", "/", "/">>) THEN i + 8
        ELSE IF StartsAt(low, i, <<"h", "t", "t", "p", ":", "/", "/">>) THEN i + 7
        ELSE 0

\* the length of the alternative of (?:png|jpg|jpeg|gif|bmp|webp|svg) that
\* matches at i ignoring case, 0 if none does
ImageExtLen(s, i) ==
    IF StartsAtNoCase(s, i, <<"p", "n", "g">>) THEN 3
    ELSE IF StartsAtNoCase(s, i, <<"j", "p", "g">>) THEN 3
    ELSE IF StartsAtNoCase(s, i, <<"j", "p", "e", "g">>) THEN 4
    ELSE IF StartsAtNoCase(s, i, <<"g", "i", "f">>) THEN 3
    ELSE IF StartsAtNoCase(s, i, <<"b", "m", "p">>) THEN 3
    ELSE IF StartsAtNoCase(s, i, <<"w", "e", "b", "p">>) THEN 4
    ELSE IF StartsAtNoCase(s, i, <<"s", "v", "g">>) THEN 3
    ELSE 0

\* r'(https?://[^\s<>"\']+\.(?:png|jpg|jpeg|gif|bmp|webp|svg))' with
\* re.IGNORECASE: the greedy class gives characters back until a dot and an
\* extension follow it
ImageUrlAt(s, i) ==
    LET p == SchemeEnd(s, i, TRUE)
        q == UrlEnd(s, p)
        dots == {m \in (p + 1)..(q - 1) : s[m] = "." /\ ImageExtLen(s, m + 1) > 0}
    IN  IF p = 0 \/ dots = {} THEN NoMatch
        ELSE LET m == CHOOSE x \in dots : \A y \in dots : y <= x
                 e == m + 1 + ImageExtLen(s, m + 1)
             IN  [end |-> e,
                  rep |-> IMG_OPEN \o Slice(s, i, e) \o IMG_CLOSE_IMAGE]

\* r'(?<!["\'])(?<!=)(https?://[^\s<>"\']+)(?!["\'])': the greedy class gives
\* one character back when a quote follows it
AnyUrlAt(s, i) ==
    LET p == SchemeEnd(s, i, FALSE)
        q == UrlEnd(s, p)
        e == IF At(s, q) \in Quotes THEN q - 1 ELSE q
    IN  IF p = 0 \/ At(s, i - 1) \in Quotes \cup {"="} \/ e <= p THEN NoMatch
        ELSE [end |-> e,
              rep |-> IMG_OPEN \o Slice(s, i, e) \o IMG_CLOSE_EMBEDDED]

\* open (.+?) close tried at i: the lazy group is at least one character, none
\* of them a newline, and stops at the first close after it
LazyDotAt(s, i, open, close, ropen, rclose) ==
    LET g == i + Len(open)
        k == FindStr(s, g + 1, close, TRUE)
    IN  IF StartsAt(s, i, open) /\ At(s, g) \notin {"", "\n"} /\ k > 0
        THEN [end |-> k + Len(close),
              rep |-> ropen \o Slice(s, g, k) \o rclose]
        ELSE NoMatch

\* r'\\\((.+?)\\\)'
MathParenAt(s, i) ==
    LazyDotAt(s, i, <<"\\", "(">>, <<"\\", ")">>,
              MATH_INLINE_OPEN, MATH_INLINE_CLOSE)

\* r'\\\[(.+?)\\\]'
MathBracketAt(s, i) ==
    LazyDotAt(s, i, <<"\\", "[">>, <<"\\", "]">>,
              MATH_DISPLAY_OPEN, MATH_DISPLAY_CLOSE)

\* r'(?<!\\)\$([^$]+?)\$(?!\$)'
DollarAt(s, i) ==
    LET k == FindChar(s, i + 1, "$")
    IN  IF At(s, i) = "$" /\ At(s, i - 1) # "\\" /\ k >= i + 2 /\ k <= Len(s)
           /\ At(s, k + 1) # "$"
        THEN [end |-> k + 1,
              rep |-> MATH_INLINE_OPEN \o Slice(s, i + 1, k) \o MATH_INLINE_CLOSE]
        ELSE NoMatch

\* r'\$\$(.+?)\$\$'
DoubleDollarAt(s, i) ==
    LazyDotAt(s, i, <<"$", "$">>, <<"$", "$">>,
              MATH_DISPLAY_OPEN, MATH_DISPLAY_CLOSE)

\* r'\*\*([^*]+)\*\*'
BoldAt(s, i) ==
    LET q == FindChar(s, i + 2, "*")
    IN  IF StartsAt(s, i, <<"*", "*">>) /\ q > i + 2 /\ StartsAt(s, q, <<"*", "*">>)
        THEN [end |-> q + 2,
              rep |-> STRONG_OPEN \o Slice(s, i + 2, q) \o STRONG_CLOSE]
        ELSE NoMatch

\* r'\*([^*]+)\*'
ItalicAt(s, i) ==
    LET q == FindChar(s, i + 1, "*")
    IN  IF At(s, i) = "*" /\ q > i + 1 /\ q <= Len(s)
        THEN [end |-> q + 1, rep |-> EM_OPEN \o Slice(s, i + 1, q) \o EM_CLOSE]
        ELSE NoMatch

\* the code rule, r'(grave)([^(grave)]+)(grave)'
CodeAt(s, i) ==
    LET q == FindChar(s, i + 1, Grave)
    IN  IF At(s, i) = Grave /\ q > i + 1 /\ q <= Len(s)
        THEN [end |-> q + 1, rep |-> CODE_OPEN \o Slice(s, i + 1, q) \o CODE_CLOSE]
        ELSE NoMatch

\* text.replace('σ', '&sigma;')
SigmaAt(s, i) ==
    IF At(s, i) = "σ" THEN [end |-> i + 1, rep |-> SIGMA_ENTITY] ELSE NoMatch

\* the pattern named p tried at position i of s: where the match ends
\* (exclusive, 0 for no match) and what re.sub puts in its place
MatchAt(p, s, i) ==
    CASE p = "header_break" -> HeaderBreakAt(s, i)
      [] p = "bullet_break" -> BulletBreakAt(s, i)
      [] p = "number_break" -> NumberBreakAt(s, i)
      [] p = "quote_break"  -> QuoteBreakAt(s, i)
      [] p = "image_url"    -> ImageUrlAt(s, i)
      [] p = "any_url"      -> AnyUrlAt(s, i)
      [] p = "math_paren"   -> MathParenAt(s, i)
      [] p = "math_bracket" -> MathBracketAt(s, i)
      [] p = "math_dollar"  -> DollarAt(s, i)
      [] p = "math_dollars" -> DoubleDollarAt(s, i)
      [] p = "bold"         -> BoldAt(s, i)
      [] p = "italic"       -> ItalicAt(s, i)
      [] p = "code"         -> CodeAt(s, i)
      [] p = "sigma"        -> SigmaAt(s, i)

\* re.sub(p, repl, s): the leftmost match, then the next one after its end
\* ms[k] is the pattern tried at position k
RECURSIVE ReSubFrom(_, _, _)
ReSubFrom(s, i, ms) ==
    LET later == {k \in i..Len(s) : ms[k].end > 0}
    IN  IF later = {} THEN Slice(s, i, Len(s) + 1)
        ELSE LET k == CHOOSE x \in later : \A y \in later : x <= y
             IN  Slice(s, i, k) \o ms[k].rep \o ReSubFrom(s, ms[k].end, ms)

ReSub(p, s) == ReSubFrom(s, 1, [k \in 1..Len(s) |-> MatchAt(p, s, k)])

\* the text after the first n substitutions of the sequence rules
RECURSIVE ApplyRules(_, _, _)
ApplyRules(rules, t, n) ==
    IF n = 0 THEN t ELSE ReSub(rules[n], ApplyRules(rules, t, n - 1))

\* the substitutions of preprocess_markdown in the order it applies them
PreprocessRules == <<"header_break", "bullet_break", "number_break", "quote_break">>

preprocess_markdown(c) ==
    Strip(ApplyRules(PreprocessRules, c, Len(PreprocessRules)))

\* the substitutions of format_inline in the order the function applies them
InlineRules ==
    <<"image_url", "any_url", "math_paren", "math_bracket", "math_dollar",
      "math_dollars", "bold", "italic", "code", "sigma">>

format_inline(t) == ApplyRules(InlineRules, t, Len(InlineRules))

(***************************************************************************)
(* parse_markdown_to_html: the block parser                                *)
(***************************************************************************)
UL_OPEN == <<"<", "u", "l", ">">>

UL_CLOSE == <<"<", "/", "u", "l", ">">>

OL_OPEN == <<"<", "o", "l", ">">>

OL_CLOSE == <<"<", "/", "o", "l", ">">>

\* f'<tag>{inner}</tag>'
Wrap(tag, inner) == <<"<">> \o tag \o <<">">> \o inner \o <<"<", "/">> \o tag \o <<">">>

H2 == <<"h", "2">>

H3 == <<"h", "3">>

LI == <<"l", "i">>

BLOCKQUOTE == <<"b", "l", "o", "c", "k", "q", "u", "o", "t", "e">>

P == <<"p">>

\* the parser's locals before the first line (lines 35-38)
ParserStart == [html_parts |-> <<>>, in_list |-> FALSE, in_ordered_list |-> FALSE]

\* if in_list: html_parts.append('</ul>'); in_list = False
CloseUl(st) ==
    IF st.in_list
    THEN [st EXCEPT !.html_parts = Append(@, UL_CLOSE), !.in_list = FALSE]
    ELSE st

\* if in_ordered_list: html_parts.append('</ol>'); in_ordered_list = False
CloseOl(st) ==
    IF st.in_ordered_list
    THEN [st EXCEPT !.html_parts = Append(@, OL_CLOSE), !.in_ordered_list = FALSE]
    ELSE st

\* OpenUl without the test of in_list: every item opens a list
OpenUl_Always(st) ==
    [st EXCEPT !.html_parts = Append(@, UL_OPEN), !.in_list = TRUE]

\* if not in_list: html_parts.append('<ul>'); in_list = True
OpenUl(st) ==
    IF ~st.in_list
    THEN [st EXCEPT !.html_parts = Append(@, UL_OPEN), !.in_list = TRUE]
    ELSE st

\* if not in_ordered_list: html_parts.append('<ol>'); in_ordered_list = True
OpenOl(st) ==
    IF ~st.in_ordered_list
    THEN [st EXCEPT !.html_parts = Append(@, OL_OPEN), !.in_ordered_list = TRUE]
    ELSE st

\* Emit with the fragment appended twice
Emit_Twice(st, fragment) ==
    [st EXCEPT !.html_parts = Append(Append(@, fragment), fragment)]

\* html_parts.append(fragment)
Emit(st, fragment) == [st EXCEPT !.html_parts = Append(@, fragment)]

\* re.match(r'^(\d+)\.\s+(.+)$', line): where group 2 starts, 0 for no match;
\* \s+ takes the whitespace after the dot and leaves .+ at least one character
NumberedItem(line) ==
    LET d == DigitEnd(line, 1)
        k == SpaceEnd(line, d + 1)
        g == IF k <= Len(line) THEN k ELSE k - 1
    IN  IF d > 1 /\ At(line, d) = "." /\ g > d + 1 /\ g <= Len(line) THEN g ELSE 0

\* which branch of the loop body takes the trimmed, non-blank line
LineKind(line) ==
    IF StartsAt(line, 1, <<"#", "#", " ">>) THEN "h2"
    ELSE IF StartsAt(line, 1, <<"#", "#", "#", " ">>) THEN "h3"
    ELSE IF NumberedItem(line) > 0 THEN "ol_item"
    ELSE IF StartsAt(line, 1, <<"-", " ">>) THEN "ul_item"
    ELSE IF StartsAt(line, 1, <<">">>) THEN "blockquote"
    ELSE "paragraph"

\* the element the branch wraps the line's text in
BlockTag(kind) ==
    CASE kind = "h2" -> H2
      [] kind = "h3" -> H3
      [] kind = "ol_item" -> LI
      [] kind = "ul_item" -> LI
      [] kind = "blockquote" -> BLOCKQUOTE
      [] kind = "paragraph" -> P

\* the text the branch hands to format_inline: line[3:].strip(), line[4:].strip(),
\* numbered_match.group(2), line[2:], line[1:].strip(), line
BlockText(kind, line) ==
    CASE kind = "h2" -> Strip(Slice(line, 4, Len(line) + 1))
      [] kind = "h3" -> Strip(Slice(line, 5, Len(line) + 1))
      [] kind = "ol_item" -> Slice(line, NumberedItem(line), Len(line) + 1)
      [] kind = "ul_item" -> Slice(line, 3, Len(line) + 1)
      [] kind = "blockquote" -> Strip(Slice(line, 2, Len(line) + 1))
      [] kind = "paragraph" -> line

\* the fragment the loop body appends for the trimmed, non-blank line
ContentFragment(kind, line) ==
    Wrap(BlockTag(kind), format_inline(BlockText(kind, line)))

\* ListsFor with the numbered branch no longer closing an open unordered list
ListsFor_KeepUl(kind, st) ==
    CASE kind = "ol_item" -> OpenOl(st)
      [] kind = "ul_item" -> OpenUl(CloseOl(st))
      [] OTHER -> CloseOl(CloseUl(st))

\* what the branch does to the open lists before it appends its fragment
ListsFor(kind, st) ==
    CASE kind = "ol_item" -> OpenOl(CloseUl(st))
      [] kind = "ul_item" -> OpenUl(CloseOl(st))
      [] OTHER -> CloseOl(CloseUl(st))

\* ParseTrimmed with a blank line falling through to the paragraph branch
ParseTrimmed_BlankParagraph(st, kind, line) ==
    IF Len(line) = 0 THEN Emit(CloseOl(CloseUl(st)), Wrap(P, <<>>))
    ELSE Emit(ListsFor(kind, st), ContentFragment(kind, line))

\* the loop body for the trimmed line (lines 42-122)
ParseTrimmed(st, kind, line) ==
    IF Len(line) = 0 THEN CloseOl(CloseUl(st))
    ELSE Emit(ListsFor(kind, st), ContentFragment(kind, line))

\* the kind of the raw line: blank, or its branch after trimming
KindOf(line) == IF Len(line) = 0 THEN "blank" ELSE LineKind(line)

\* one iteration of the loop over the lines (lines 40-122)
ParseStripped(st, line) == ParseTrimmed(st, KindOf(line), line)

ParseLine(st, raw_line) == ParseStripped(st, Strip(raw_line))

\* the statements after the loop (lines 124-128): the tags are appended, the
\* flags are left as they are
CloseAtEnd(st) ==
    LET a == IF st.in_list THEN Emit(st, UL_CLOSE) ELSE st
    IN  IF st.in_ordered_list THEN Emit(a, OL_CLOSE) ELSE a

\* the parser's locals after the first n lines
RECURSIVE ParseUpTo(_, _)
ParseUpTo(ls, n) ==
    IF n = 0 THEN ParserStart ELSE ParseLine(ParseUpTo(ls, n - 1), ls[n])

parse_markdown_to_html(c) ==
    LET ls == SplitLines(preprocess_markdown(c))
    IN  Join(CloseAtEnd(ParseUpTo(ls, Len(ls))).html_parts, <<"\n">>)

(***************************************************************************)
(* Inputs                                                                  *)
(***************************************************************************)
\* how many blocks an enumerated input of the parser joins
MaxBlocks == 3

\* all sequences of at most n elements of S
SeqsUpTo(S, n) == UNION {[1..k -> S] : k \in 0..n}

\* what stands between two blocks of an input
Separators == {<<" ">>, <<"\n">>}

\* the blocks an input is made of: nothing, a paragraph, list items with and
\* without a bolded phrase, headers, a blockquote
BlockItems ==
    { <<>>,
      <<"a">>,
      <<"-", " ", "a">>,
      <<"-", " ", "*", "*", "a", "*", "*">>,
      <<"1", ".", " ", "a">>,
      <<"1", ".", " ", "*", "*", "a", "*", "*">>,
      <<"#", "#", " ", "a">>,
      <<"#", "#", "#", " ", "a">>,
      <<">", " ", "a">> }

\* the example of the specification's section 8
SummaryExample ==
    <<"#", "#", " ", "S", "u", "m", "m", "a", "r", "y", " ", "T", "h", "e", " ", "p", "r", "o", "c", "e", "s", "s", " ", "i", "s", " ", "s", "t", "a", "b", "l", "e", ".", " ", "-", " ", "*", "*", "A", "c", "t", "i", "o", "n", ":", "*", "*", " ", "m", "o", "n", "i", "t", "o", "r">>

\* two adjacent unordered items, a paragraph between two unordered runs, a
\* blank line between two unordered runs, then ordered items
ListRunsExample ==
    <<"-", " ", "a", "\n", "-", " ", "a", "\n", "a", "\n", "-", " ", "a", "\n", "\n", "-", " ", "a", "\n", "1", ".", " ", "a", "\n", "2", ".", " ", "a">>

\* two bold numbered items and two bold unordered items on one line
BoldItemsExample ==
    <<"1", ".", " ", "*", "*", "a", "*", "*", " ", "2", ".", " ", "*", "*", "b", "*", "*", " ", "-", " ", "*", "*", "c", "*", "*", " ", "-", " ", "*", "*", "d", "*", "*">>

\* texts without a marker of the parser or of format_inline
PlainTexts == {<<"A">>, <<"a", " ", "b">>}

\* ">" after whitespace in mid-line
SPACED_QUOTE == <<" ", ">", " ">>

\* ">" after another character in mid-line
ARROW == <<"-", ">">>

\* lines of the form A > B and A->B
QuoteExamples ==
    {a \o mark \o b : a, b \in PlainTexts, mark \in {SPACED_QUOTE, ARROW}}

ParseExamples == {SummaryExample, ListRunsExample, BoldItemsExample} \cup QuoteExamples

RECURSIVE JoinBlocks(_, _)
JoinBlocks(items, seps) ==
    IF Len(items) = 0 THEN <<>>
    ELSE IF Len(items) = 1 THEN items[1]
    ELSE items[1] \o seps[1] \o JoinBlocks(Tail(items), Tail(seps))

ParseInputs ==
    ParseExamples \cup
    { JoinBlocks(items, seps) :
        items \in SeqsUpTo(BlockItems, MaxBlocks),
        seps \in [1..(MaxBlocks - 1) -> Separators] }

(***************************************************************************)
(* parse_markdown_to_html(markdown_content), one loop iteration a step     *)
(***************************************************************************)
\* a str argument
Str(v) == [type |-> "str", value |-> v]

\* the argument None
None == [type |-> "NoneType"]

\* a local that no statement has assigned yet
Unbound == [bound |-> FALSE]

\* a local holding v
Bound(v) == [bound |-> TRUE, value |-> v]

\* the call has not ended
Running == [kind |-> "running"]

Idle ==
    /\ content = <<>>
    /\ lines = <<>>
    /\ idx = 0
    /\ html_parts = <<>>
    /\ in_list = FALSE
    /\ in_ordered_list = FALSE
    /\ html_body = <<>>
    /\ text = <<>>
    /\ rule = 0
    /\ html_document = Unbound
    /\ printed = <<>>
    /\ outcome = Running
    /\ ToolsIdle

InitParse ==
    /\ pc = "parse"
    /\ arg \in {Str(v) : v \in ParseInputs}
    /\ Idle

\* lines 32-38
Preprocess ==
    /\ pc = "parse"
    /\ content' = preprocess_markdown(arg.value)
    /\ lines' = SplitLines(content')
    /\ html_parts' = ParserStart.html_parts
    /\ in_list' = ParserStart.in_list
    /\ in_ordered_list' = ParserStart.in_ordered_list
    /\ idx' = 0
    /\ pc' = "lines"
    /\ UNCHANGED <<arg, html_body, text, rule, html_document, printed, outcome, toolVars>>

Locals ==
    [html_parts |-> html_parts, in_list |-> in_list,
     in_ordered_list |-> in_ordered_list]

\* the locals become those of st
SetLocals(st) ==
    /\ html_parts' = st.html_parts
    /\ in_list' = st.in_list
    /\ in_ordered_list' = st.in_ordered_list

\* lines 40-122, one iteration
NextLine ==
    /\ pc = "lines"
    /\ idx < Len(lines)
    /\ SetLocals(ParseLine(Locals, lines[idx + 1]))
    /\ idx' = idx + 1
    /\ UNCHANGED <<pc, arg, content, lines, html_body, text, rule, html_document,
                   printed, outcome, toolVars>>

\* lines 124-130
EndOfInput ==
    /\ pc = "lines"
    /\ idx = Len(lines)
    /\ html_parts' = CloseAtEnd(Locals).html_parts
    /\ html_body' = Join(html_parts', <<"\n">>)
    /\ pc' = "parsed"
    /\ UNCHANGED <<arg, content, lines, idx, in_list, in_ordered_list, text,
                   rule, html_document, printed, outcome, toolVars>>

NextParse == Preprocess \/ NextLine \/ EndOfInput

SpecParse == InitParse /\ [][NextParse]_vars

(***************************************************************************)
(* format_inline(text), one substitution a step                            *)
(***************************************************************************)
\* how many pieces an enumerated input of format_inline joins
MaxInlinePieces == 4

UrlPieces ==
    { <<"h", "t", "t", "p", ":", "/", "/">>, <<"a">>, <<".", "p", "n", "g">>,
      <<"\"">>, <<" ">>, <<"=">> }

MathPieces ==
    { <<"$", "$", "x", "$", "$">>, <<"$", "y", "$">>, <<" ">>, <<"σ">>, <<"a">> }

EmphasisPieces ==
    { <<"*", "*">>, <<"*">>, <<"x">>, <<"$", "x", "$">>, <<"$", "x", "*", "x", "$">> }

DelimiterPieces ==
    { <<"\\", "(">>, <<"\\", ")">>, <<"\\", "[">>, <<"\\", "]">>, <<Grave>>, <<"x">> }

PieceFamilies == {UrlPieces, MathPieces, EmphasisPieces, DelimiterPieces}

\* a URL with another URL in its path, and an image URL with a query string
NestedUrlExample ==
    <<"h", "t", "t", "p", ":", "/", "/", "a", "/", "h", "t", "t", "p", ":", "/", "/", "b", ".", "p", "n", "g">>

QueryUrlExample ==
    <<"h", "t", "t", "p", ":", "/", "/", "a", ".", "p", "n", "g", "?", "w", "=", "1">>

InlineExamples == {NestedUrlExample, QueryUrlExample}

InlineInputs ==
    InlineExamples \cup
    { Flatten(ps) : ps \in UNION {SeqsUpTo(F, MaxInlinePieces) : F \in PieceFamilies} }

InitInline ==
    /\ pc = "inline"
    /\ arg \in {Str(v) : v \in InlineInputs}
    /\ content = <<>>
    /\ lines = <<>>
    /\ idx = 0
    /\ html_parts = <<>>
    /\ in_list = FALSE
    /\ in_ordered_list = FALSE
    /\ html_body = <<>>
    /\ text = arg.value
    /\ rule = 0
    /\ html_document = Unbound
    /\ printed = <<>>
    /\ outcome = Running
    /\ ToolsIdle

\* the next text = re.sub(...) of lines 137-180
ApplyRule ==
    /\ pc = "inline"
    /\ rule < Len(InlineRules)
    /\ text' = ReSub(InlineRules[rule + 1], text)
    /\ rule' = rule + 1
    /\ UNCHANGED <<pc, arg, content, lines, idx, html_parts, in_list,
                   in_ordered_list, html_body, html_document, printed, outcome, toolVars>>

\* line 181
InlineReturn ==
    /\ pc = "inline"
    /\ rule = Len(InlineRules)
    /\ pc' = "formatted"
    /\ UNCHANGED <<arg, content, lines, idx, html_parts, in_list, in_ordered_list,
                   html_body, text, rule, html_document, printed, outcome, toolVars>>

NextInline == ApplyRule \/ InlineReturn

SpecInline == InitInline /\ [][NextInline]_vars

(***************************************************************************)
(* aggregator_output(o_aggregator) and render_markdown_to_html             *)
(***************************************************************************)
\* the template of lines 199-365, from the doctype to the header block
DOC_HEAD ==
    <<"<!DOCTYPE html>", "<html lang=\"en\">", "<head>...</head>", "<body>",
      "<div class=\"container\">", "<div class=\"header\">...</div>">>

\* the template of lines 367-374, from the footer to the end
DOC_FOOT ==
    <<"<div class=\"footer\">...</div>", "</div>", "</body>", "</html>">>

\* Document with {html_body} written twice into the template
Document_BodyTwice(body) == DOC_HEAD \o body \o body \o DOC_FOOT

\* the f-string of lines 199-374
Document(body) == DOC_HEAD \o body \o DOC_FOOT

InitRender ==
    /\ pc = "tool"
    /\ arg \in {Str(v) : v \in ParseInputs} \cup {None}
    /\ Idle

\* line 387: the tool calls render_markdown_to_html(o_aggregator)
ToolCall ==
    /\ pc = "tool"
    /\ pc' = "try"
    /\ UNCHANGED <<arg, content, lines, idx, html_parts, in_list, in_ordered_list,
                   html_body, text, rule, html_document, printed, outcome, toolVars>>

\* lines 193-374 when nothing raises
TryBody ==
    /\ pc = "try"
    /\ arg.type = "str"
    /\ html_body' = parse_markdown_to_html(arg.value)
    /\ html_document' = Bound(Document(html_body'))
    /\ pc' = "return"
    /\ UNCHANGED <<arg, content, lines, idx, html_parts, in_list, in_ordered_list,
                   text, rule, printed, outcome, toolVars>>

\* line 196 when the argument is no str: re.sub raises TypeError at line 12,
\* before html_body is assigned, and the except clause of line 380 takes it
TryRaises ==
    /\ pc = "try"
    /\ arg.type # "str"
    /\ pc' = "except"
    /\ UNCHANGED <<arg, content, lines, idx, html_parts, in_list, in_ordered_list,
                   html_body, text, rule, html_document, printed, outcome, toolVars>>

\* lines 380-381
ExceptClause ==
    /\ pc = "except"
    /\ printed' = Append(printed, "An error occurred: ")
    /\ pc' = "after_try"
    /\ UNCHANGED <<arg, content, lines, idx, html_parts, in_list, in_ordered_list,
                   html_body, text, rule, html_document, outcome, toolVars>>

\* return html_document: a bound local is returned, an unbound one raises
ReturnLocal ==
    IF html_document.bound
    THEN [kind |-> "returned", value |-> html_document.value]
    ELSE [kind |-> "raised", exception |-> "UnboundLocalError"]

\* line 376, then line 388: the tool returns what the renderer returned
ReturnDocument ==
    /\ pc = "return"
    /\ outcome' = ReturnLocal
    /\ pc' = "done"
    /\ UNCHANGED <<arg, content, lines, idx, html_parts, in_list, in_ordered_list,
                   html_body, text, rule, html_document, printed, toolVars>>

\* line 383, then line 387: no handler stands between the renderer and the
\* tool's caller
ReturnAfterExcept ==
    /\ pc = "after_try"
    /\ outcome' = ReturnLocal
    /\ pc' = "done"
    /\ UNCHANGED <<arg, content, lines, idx, html_parts, in_list, in_ordered_list,
                   html_body, text, rule, html_document, printed, toolVars>>

NextRender ==
    ToolCall \/ TryBody \/ TryRaises \/ ExceptClause \/ ReturnDocument
        \/ ReturnAfterExcept

SpecRender == InitRender /\ [][NextRender]_vars

(***************************************************************************)
(* Properties of the block parser (SpecParse)                              *)
(***************************************************************************)
\* whether t occurs in s
Contains(s, t) == \E k \in 1..(Len(s) - Len(t) + 1) : StartsAt(s, k, t)

\* how many of the first n fragments are the fragment tag
CountIn(parts, n, tag) == Cardinality({k \in 1..n : parts[k] = tag})

\* how many lists of the kind are open after the first n fragments
OpenAfter(parts, n, open, close) ==
    CountIn(parts, n, open) - CountIn(parts, n, close)

\* the kind of line k as the loop sees it
KindAt(k) == KindOf(Strip(lines[k]))

IsListKind(kind) == kind \in {"ul_item", "ol_item"}

\* C1: in the fragment sequence every <ul> and <ol> is closed exactly once, no
\* closing tag comes without an open list of its kind, a <ul> and an <ol> are
\* never open together, the flags in_list and in_ordered_list say which list is
\* open after each line and are never both true, and nothing is open at the end
C1_ListsBalanced ==
    /\ ~(in_list /\ in_ordered_list)
    /\ \A n \in 0..Len(html_parts) :
          LET u == OpenAfter(html_parts, n, UL_OPEN, UL_CLOSE)
              o == OpenAfter(html_parts, n, OL_OPEN, OL_CLOSE)
          IN  u \in {0, 1} /\ o \in {0, 1} /\ u + o <= 1
    /\ pc = "lines" =>
          /\ in_list <=> OpenAfter(html_parts, Len(html_parts), UL_OPEN, UL_CLOSE) = 1
          /\ in_ordered_list
                <=> OpenAfter(html_parts, Len(html_parts), OL_OPEN, OL_CLOSE) = 1
    /\ pc = "parsed" =>
          /\ OpenAfter(html_parts, Len(html_parts), UL_OPEN, UL_CLOSE) = 0
          /\ OpenAfter(html_parts, Len(html_parts), OL_OPEN, OL_CLOSE) = 0

\* an input with both kinds of list has been parsed to the end
C1_Witness ==
    /\ pc = "parsed"
    /\ \E i, j \in 1..Len(html_parts) :
          i < j /\ html_parts[i] = UL_CLOSE /\ html_parts[j] = OL_CLOSE

\* the fragments that line k accounts for when lists open at the first line of
\* a run of items of one kind and close at its last line
RunFragments(k) ==
    LET kind == KindAt(k)
        first == k = 1 \/ KindAt(k - 1) # kind
        last == k = Len(lines) \/ KindAt(k + 1) # kind
        open == IF kind = "ul_item" THEN UL_OPEN ELSE OL_OPEN
        close == IF kind = "ul_item" THEN UL_CLOSE ELSE OL_CLOSE
    IN  (IF IsListKind(kind) /\ first THEN <<open>> ELSE <<>>)
        \o (IF kind = "blank" THEN <<>>
            ELSE <<ContentFragment(kind, Strip(lines[k]))>>)
        \o (IF IsListKind(kind) /\ last THEN <<close>> ELSE <<>>)

\* C2: a contiguous run of list items of one kind has its opening tag once,
\* before its first item, and its closing tag once, after its last item; any
\* other line between two runs (a paragraph, header, blockquote or blank line)
\* separates them into two groups with that line's fragment between them
C2_OneListPerRun ==
    pc = "parsed" =>
        html_parts = Flatten([k \in 1..Len(lines) |-> RunFragments(k)])

\* the parsed input has two adjacent unordered items, and two unordered runs
\* with a paragraph between them
C2_Witness ==
    /\ pc = "parsed"
    /\ \E k \in 1..(Len(lines) - 1) : KindAt(k) = "ul_item" /\ KindAt(k + 1) = "ul_item"
    /\ \E k \in 1..(Len(lines) - 2) :
          /\ KindAt(k) = "ul_item"
          /\ KindAt(k + 1) = "paragraph"
          /\ KindAt(k + 2) = "ul_item"

\* the lines of the raw input that hold more than whitespace, trimmed
NonBlankLines(s) ==
    LET ls == SplitLines(s)
        keep == SelectSeq(ls, LAMBDA l : Len(Strip(l)) > 0)
    IN  [k \in 1..Len(keep) |-> Strip(keep[k])]

\* one <p> fragment for each non-blank line of the raw input, in input order
ParagraphPerLine(s) ==
    LET ls == NonBlankLines(s)
    IN  [k \in 1..Len(ls) |-> Wrap(P, format_inline(ls[k]))]

\* the input has no ## or ### marker, no line that starts with "- ", no
\* numbered prefix "N. " and no ">"
NoLineMarker(s) ==
    /\ ~Contains(s, <<"#", "#">>)
    /\ ~Contains(s, <<">">>)
    /\ \A k \in 1..Len(s) : ~(IsDigit(s[k]) /\ At(s, k + 1) = "." /\ IsSpace(At(s, k + 2)))
    /\ LET ls == NonBlankLines(s)
       IN  \A k \in 1..Len(ls) : ~StartsAt(ls[k], 1, <<"-", " ">>)

\* a "-" after whitespace and before a bolded phrase, in the middle of a line
MidLineBullet(s) ==
    \E k \in 2..Len(s) :
        /\ IsSpace(s[k - 1]) /\ s[k] = "-" /\ IsSpace(At(s, k + 1))
        /\ StartsAt(s, SpaceEnd(s, k + 1), <<"*", "*">>)

\* the statement of C3 as written: the markers are looked for at line starts
C3_Original ==
    (pc = "parsed" /\ NoLineMarker(arg.value)) =>
        html_parts = ParagraphPerLine(arg.value)

\* C3: for an input with no ## or ### marker, no ">", no numbered prefix "N. ",
\* no line starting with "- " and no "- " before a bolded phrase anywhere in a
\* line, the fragments are exactly one <p> per non-blank input line, in input
\* order, holding the line's trimmed text after the inline rules
C3_ParagraphPerLine ==
    (pc = "parsed" /\ NoLineMarker(arg.value) /\ ~MidLineBullet(arg.value)) =>
        html_parts = ParagraphPerLine(arg.value)

\* an input of two paragraphs around a blank line has been parsed
C3_Witness ==
    /\ pc = "parsed"
    /\ NoLineMarker(arg.value) /\ ~MidLineBullet(arg.value)
    /\ Contains(arg.value, <<"\n", "\n">>)
    /\ Len(html_parts) >= 2

\* the pieces of SummaryExample: "Summary", "The process is stable.", "Action:"
\* and " monitor"
ExampleTitle == Slice(SummaryExample, 4, 11)

ExampleSentence == Slice(SummaryExample, 12, 34)

ExampleItem ==
    STRONG_OPEN \o Slice(SummaryExample, 39, 46) \o STRONG_CLOSE
        \o Slice(SummaryExample, 48, 56)

\* the statement of C4 as written: the title alone in the header, the sentence
\* after it in a paragraph of its own, then the list
C4_Original ==
    (pc = "parsed" /\ arg.value = SummaryExample) =>
        html_parts = << Wrap(H2, ExampleTitle), Wrap(P, ExampleSentence),
                        UL_OPEN, Wrap(LI, ExampleItem), UL_CLOSE >>

\* whether the text after a header marker is cut at k: a line break, or a place
\* where the normalizer inserts one
HeaderTextEndsAt(rest, k) ==
    \/ rest[k] = "\n"
    \/ HeaderBreakAt(rest, k).end > 0
    \/ BulletBreakAt(rest, k).end > 0
    \/ NumberBreakAt(rest, k).end > 0
    \/ QuoteBreakAt(rest, k).end > 0

\* the text of the header that opens the input s, m being the match of the
\* header marker at the start of s: everything after the marker up to the first
\* cut, trimmed
HeaderText(s, m) ==
    LET rest == <<" ">> \o Slice(s, m.end, Len(s) + 1)
        cuts == {k \in 1..Len(rest) : HeaderTextEndsAt(rest, k)}
        cut == IF cuts = {} THEN Len(rest) + 1
               ELSE CHOOSE k \in cuts : \A j \in cuts : k <= j
    IN  Strip(Slice(rest, 1, cut))

\* C4: for the input "## Summary The process is stable. - **Action:** monitor"
\* the fragments are <h2>Summary The process is stable.</h2> and the list
\* <ul>, <li><strong>Action:</strong> monitor</li>, </ul>, with no <p>; in
\* general the fragment of a header that opens the input holds all the text
\* after the marker up to the next line break or the next place where the
\* normalizer inserts one (before a header marker, "- **", "N. **" or ">"),
\* when that text is not empty
C4_HeaderTakesLine ==
    pc = "parsed" =>
        /\ arg.value = SummaryExample =>
              html_parts = << Wrap(H2, ExampleTitle \o <<" ">> \o ExampleSentence),
                              UL_OPEN, Wrap(LI, ExampleItem), UL_CLOSE >>
        /\ LET m == HeaderBreakAt(arg.value, 1)
           IN  (m.end > 0 /\ Len(HeaderText(arg.value, m)) > 0) =>
                  html_parts[1] =
                      Wrap(IF Len(m.rep) = 5 THEN H2 ELSE H3,
                           format_inline(HeaderText(arg.value, m)))

\* the example has been parsed into a header and a list of one item
C4_Witness ==
    /\ pc = "parsed"
    /\ arg.value = SummaryExample
    /\ Len(html_parts) = 4
    /\ html_parts[2] = UL_OPEN

\* whether a block-starting token begins at position k of s: ##, "- ", "N. " or
\* ">", at the start of s or after whitespace
BlockTokenAt(s, k) ==
    /\ k = 1 \/ IsSpace(s[k - 1])
    /\ \/ StartsAt(s, k, <<"#", "#">>)
       \/ s[k] = "-" /\ IsSpace(At(s, k + 1))
       \/ /\ IsDigit(s[k])
          /\ At(s, DigitEnd(s, k)) = "."
          /\ IsSpace(At(s, DigitEnd(s, k) + 1))
       \/ s[k] = ">"

\* C5: in the normalized content every block-starting token begins on its own
\* line: it is at the start of the content or right after a line break
C5_TokensOnOwnLine ==
    pc # "parse" =>
        \A k \in 2..Len(content) :
            BlockTokenAt(content, k) => content[k - 1] = "\n"

(***************************************************************************)
(* Properties of the inline rules (SpecInline)                             *)
(***************************************************************************)
\* s is one bare URL: the scheme, then at least one URL character, to the end
IsBareUrl(s) ==
    LET p == SchemeEnd(s, 1, FALSE)
    IN  p > 0 /\ p <= Len(s) /\ UrlEnd(s, p) = Len(s) + 1

\* s ends in a dot and an image extension
EndsInImageExt(s) ==
    \E m \in 1..Len(s) :
        s[m] = "." /\ ImageExtLen(s, m + 1) > 0 /\ m + ImageExtLen(s, m + 1) = Len(s)

\* every <img src=" in s is followed by a src without "<" and by the rest of
\* one of the two img tags
ImgTagsWellFormed(s) ==
    \A k \in 1..Len(s) :
        StartsAt(s, k, IMG_OPEN) =>
            LET q == FindChar(s, k + Len(IMG_OPEN), "\"")
            IN  /\ \A j \in (k + Len(IMG_OPEN))..(q - 1) : s[j] # "<"
                /\ \/ StartsAt(s, q, IMG_CLOSE_IMAGE)
                   \/ StartsAt(s, q, IMG_CLOSE_EMBEDDED)

\* C6: once the two URL rules have run, every img tag is well formed, none
\* nested in the src of another, and a line that is one bare URL has become
\* exactly one img tag with the whole URL as its src, alt "Image" when the URL
\* ends in an image extension and "Embedded content" otherwise
C6_OneImagePerUrl ==
    /\ rule >= 2 => ImgTagsWellFormed(text)
    /\ (pc = "formatted" /\ IsBareUrl(arg.value)) =>
          text = IMG_OPEN \o arg.value
                   \o (IF EndsInImageExt(arg.value) THEN IMG_CLOSE_IMAGE
                       ELSE IMG_CLOSE_EMBEDDED)

\* a display-math span $$X$$ of s begins at k and its second pair of dollars at
\* q: X is not empty and has no dollar, and no further dollar touches the span
DisplaySpan(s, k, q) ==
    /\ StartsAt(s, k, <<"$", "$">>) /\ At(s, k - 1) # "$"
    /\ q > k + 2 /\ q = FindChar(s, k + 2, "$")
    /\ StartsAt(s, q, <<"$", "$">>) /\ At(s, q + 2) # "$"

\* C7: the output for a line with a display-math span $$X$$ contains
\* <div class="math-display">\[X\]</div>, also when the line has a separate
\* $y$ span, and no sigma character is left in the output
C7_DisplayMathKept ==
    pc = "formatted" =>
        /\ \A k, q \in 1..Len(arg.value) :
              DisplaySpan(arg.value, k, q) =>
                  Contains(text, MATH_DISPLAY_OPEN \o Slice(arg.value, k + 2, q)
                                   \o MATH_DISPLAY_CLOSE)
        /\ ~Contains(text, <<"σ">>)

\* s is **$X$** with X not empty and without a dollar
IsBoldMath(s) ==
    /\ Len(s) >= 7
    /\ StartsAt(s, 1, <<"*", "*", "$">>)
    /\ StartsAt(s, Len(s) - 2, <<"$", "*", "*">>)
    /\ \A k \in 4..(Len(s) - 3) : s[k] # "$"

\* C8: a bold span around an inline-math span, **$X$**, becomes a strong
\* element wrapping a math-inline span, every tag closed and properly nested
C8_BoldWrapsMath ==
    (pc = "formatted" /\ IsBoldMath(arg.value)) =>
        text = STRONG_OPEN \o MATH_INLINE_OPEN
                 \o Slice(arg.value, 4, Len(arg.value) - 2)
                 \o MATH_INLINE_CLOSE \o STRONG_CLOSE

\* s is **w* or *w**, w not empty and without an asterisk or a dollar
IsUnbalancedBold(s) ==
    LET stars == {k \in 1..Len(s) : s[k] = "*"}
    IN  /\ Len(s) >= 4
        /\ \A k \in 1..Len(s) : s[k] # "$"
        /\ \/ stars = {1, 2, Len(s)}
           \/ stars = {1, Len(s) - 1, Len(s)}

\* C9: a line whose only asterisks are an unbalanced bold marker, **w* or
\* *w**, passes through unchanged and its output has no <em> tag
C9_NoItalicFromUnbalancedBold ==
    (pc = "formatted" /\ IsUnbalancedBold(arg.value)) =>
        text = arg.value /\ ~Contains(text, EM_OPEN)

(***************************************************************************)
(* Properties of render_markdown_to_html and aggregator_output (SpecRender) *)
(***************************************************************************)
\* C10: the call never ends in a raised exception: whatever happens inside,
\* a string is returned to the caller
C10_AlwaysReturnsString ==
    pc = "done" => outcome.kind = "returned"

\* the parts of the document template
SkeletonParts == {DOC_HEAD[k] : k \in 1..Len(DOC_HEAD)} \cup {DOC_FOOT[k] : k \in 1..Len(DOC_FOOT)}

\* what stands in doc between the template's header block and its footer
BodyRegion(doc) == Slice(doc, Len(DOC_HEAD) + 1, Len(doc) - Len(DOC_FOOT) + 1)

\* C11: for every str argument, the empty and the whitespace-only ones
\* included, the call returns the document skeleton with the body written once
\* between the header block and the footer: the value begins with the template
\* up to the header block, ends with the footer, has no template part in
\* between, and the region between is the parser's output; that region is
\* empty exactly when the argument holds nothing but whitespace
C11_SkeletonAroundBody ==
    (pc = "done" /\ arg.type = "str") =>
        /\ outcome.kind = "returned"
        /\ Len(outcome.value) >= Len(DOC_HEAD) + Len(DOC_FOOT)
        /\ Slice(outcome.value, 1, Len(DOC_HEAD) + 1) = DOC_HEAD
        /\ Slice(outcome.value, Len(outcome.value) - Len(DOC_FOOT) + 1,
                 Len(outcome.value) + 1) = DOC_FOOT
        /\ BodyRegion(outcome.value) = html_body
        /\ \A k \in 1..Len(html_body) : html_body[k] \notin SkeletonParts
        /\ (html_body = <<>>) <=> (Strip(arg.value) = <<>>)

\* the empty string has been rendered
C11_Witness ==
    /\ pc = "done"
    /\ arg = Str(<<>>)
    /\ outcome.kind = "returned"
    /\ outcome.value = DOC_HEAD \o DOC_FOOT

(***************************************************************************)
(* The agent tools aggregator (src/aggregrator.py), processbehavior        *)
(* (src/process_behavior.py), chart (src/chart_creator.py) and capmetrics  *)
(* (src/cap_metrics.py).  Each reads its settings, builds an AgentsClient, *)
(* posts one user message to a new thread, starts a run, polls the run's   *)
(* status and extracts text from the thread.  The agent service is the     *)
(* environment: it answers each runs.get with any status and, once the run *)
(* has succeeded, holds any thread that begins with the user's message.    *)
(* The credential settings are taken as set.                               *)
(***************************************************************************)
Tools == {"aggregator", "processbehavior", "chart", "capmetrics"}

Settings ==
    {"PROJECT_ENDPOINT", "MODEL_DEPLOYMENT_NAME", "PROCESS_CAPABILITY_AGGREGATOR_AGENT"}

\* the settings the tool hands to the client and to the run: the endpoint, and
\* the id of the existing agent (aggregator) or the model of the agent it creates
RequiredSettings(t) ==
    IF t = "aggregator"
    THEN {"PROJECT_ENDPOINT", "PROCESS_CAPABILITY_AGGREGATOR_AGENT"}
    ELSE {"PROJECT_ENDPOINT", "MODEL_DEPLOYMENT_NAME"}

\* the settings the tool tests with "if not ...: raise RuntimeError"
CheckedSettings(t) ==
    IF t = "aggregator"
    THEN {"PROJECT_ENDPOINT", "PROCESS_CAPABILITY_AGGREGATOR_AGENT"}
    ELSE {}

\* whether the tool creates an agent of its own and deletes it at the end
CreatesAgent(t) == t # "aggregator"

\* whether the tool's module imports time
ImportsTime(t) == t # "capmetrics"

\* whether the poll loop counts the seconds it has waited
HasTimeout(t) == t \in {"aggregator", "processbehavior"}

AGGREGATOR_MAX_WAIT == 30

BEHAVIOR_MAX_WAIT == 60

\* max_wait_seconds of the tools that have one
MaxWait(t) == IF t = "aggregator" THEN AGGREGATOR_MAX_WAIT ELSE BEHAVIOR_MAX_WAIT

\* how many seconds a poll loop without a timeout is followed
MaxSleeps == 62

\* how many messages the agent leaves on a thread at most
MaxAgentMessages == 2

Raised(exception, detail) ==
    [kind |-> "raised", exception |-> exception, detail |-> detail]

Returned(value) == [kind |-> "returned", value |-> value]

AGGREGATOR_NO_INPUT ==
    <<"N", "o", " ", "p", "r", "o", "c", "e", "s", "s", " ", "b", "e", "h", "a", "v", "i",
    "o", "r", " ", "o", "r", " ", "c", "a", "p", "a", "b", "i", "l", "i", "t", "y", " ",
    "i", "n", "f", "o", "r", "m", "a", "t", "i", "o", "n", " ", "w", "a", "s", " ", "p",
    "r", "o", "v", "i", "d", "e", "d", " ", "t", "o", " ", "t", "h", "e", " ", "a", "g",
    "g", "r", "e", "g", "a", "t", "o", "r", ".">>

AGGREGATOR_NO_TEXT ==
    <<"T", "h", "e", " ", "a", "g", "g", "r", "e", "g", "a", "t", "o", "r", " ", "a", "g",
    "e", "n", "t", " ", "d", "i", "d", " ", "n", "o", "t", " ", "r", "e", "t", "u", "r",
    "n", " ", "a", "n", "y", " ", "t", "e", "x", "t", " ", "r", "e", "s", "p", "o", "n",
    "s", "e", ".">>

BEHAVIOR_NO_TEXT ==
    <<"N", "o", " ", "a", "n", "a", "l", "y", "s", "i", "s", " ", "w", "a", "s", " ", "p",
    "r", "o", "d", "u", "c", "e", "d", " ", "b", "y", " ", "t", "h", "e", " ", "a", "g",
    "e", "n", "t", ".">>

CHART_NO_URL ==
    <<"E", "R", "R", "O", "R", ":", " ", "C", "h", "a", "r", "t", " ", "a", "g", "e", "n",
    "t", " ", "d", "i", "d", " ", "n", "o", "t", " ", "r", "e", "t", "u", "r", "n", " ",
    "a", " ", "v", "a", "l", "i", "d", " ", "U", "R", "L", ".", " ", "R", "a", "w", " ",
    "r", "e", "s", "p", "o", "n", "s", "e", " ", "w", "a", "s", ":", " ">>

ERROR_PREFIX ==
    <<"E", "R", "R", "O", "R", ":">>

\* the data the caller hands to the tool
DataPoints == <<"1", ",", "2">>

\* the text of the user message: the tool's fixed wording around its inputs
\* (capmetrics: "generate process capability for " + I_DataPoints)
UserPrompt(t, a) ==
    CASE t = "aggregator" ->
            <<"You are the Process Capability Aggregator Agent. You receive:\n">>
                \o a.o_processbehavior \o <<"\n">> \o a.o_capmetrics
                \o <<"\nYour tasks: ...">>
      [] t = "processbehavior" ->
            <<"Analyze the following process behavior chart ... Capability Metrics:\n">>
                \o a.value
      [] t = "chart" ->
            <<"Generate a statistical process control chart for the following data: ">>
                \o a.value \o <<"\n\nReturn ONLY the chart URL, nothing else.">>
      [] t = "capmetrics" -> <<"generate process capability for ">> \o a.value

\* a content item of a message: a MessageTextContent with its text.value, or
\* an item of another type
TextContent(value) == [type |-> "text", value |-> value]

ImageContent == [type |-> "image"]

\* the user message as messages.create stores it; processbehavior sends a text
\* block and an image URL block
UserMessage(t, a) ==
    [role |-> "user",
     content |-> IF t = "processbehavior"
                 THEN <<TextContent(UserPrompt(t, a)), ImageContent>>
                 ELSE <<TextContent(UserPrompt(t, a))>>]

\* the texts an agent writes: nothing, blanks, prose, an error report, a URL
\* with punctuation after it, a URL inside a sentence
AgentTexts ==
    { <<>>,
      <<" ">>,
      <<"o", "k">>,
      <<"E", "R", "R", "O", "R", ":", " ", "x">>,
      <<"h", "t", "t", "p", "s", ":", "/", "/", "u", "/", "c", ")", ".">>,
      <<"s", "e", "e", " ", "h", "t", "t", "p", ":", "/", "/", "u", " ", "!">> }

\* the content of an agent message: empty, one text block, two text blocks, or
\* an image only
AgentContents ==
    {<<>>, <<ImageContent>>, <<TextContent(<<"o", "k">>), TextContent(<<"g", "o">>)>>}
        \cup {<<TextContent(v)>> : v \in AgentTexts}

\* the threads the service may hold once the run has succeeded: the user
\* message, then the agent's messages
ThreadsOf(t, a) ==
    { <<UserMessage(t, a)>> \o [k \in 1..Len(cs) |-> [role |-> "agent", content |-> cs[k]]] :
        cs \in SeqsUpTo(AgentContents, MaxAgentMessages) }

\* msg.text_messages
TextMessages(msg) == SelectSeq(msg.content, LAMBDA item : item.type = "text")

\* the result of the shortcut when there is nothing to return
NoText == [found |-> FALSE]

FoundText(value) == [found |-> TRUE, value |-> value]

\* messages.get_last_message_text_by_role(thread_id, role): the last text
\* block of the newest message of the role, None when there is no such message
\* or it has no text block
LastMessageTextByRole(th, role) ==
    LET of_role == {k \in 1..Len(th) : th[k].role = role}
    IN  IF of_role = {} THEN NoText
        ELSE LET k == CHOOSE x \in of_role : \A y \in of_role : y <= x
                 texts == TextMessages(th[k])
             IN  IF texts = <<>> THEN NoText ELSE FoundText(texts[Len(texts)].value)

\* the values of the text blocks of the agent's messages, oldest first
RECURSIVE CollectAgentTexts(_)
CollectAgentTexts(th) ==
    IF th = <<>> THEN <<>>
    ELSE LET msg == th[Len(th)]
             texts == TextMessages(msg)
         IN  CollectAgentTexts(SubSeq(th, 1, Len(th) - 1))
                \o (IF msg.role = "agent"
                    THEN [k \in 1..Len(texts) |-> texts[k].value]
                    ELSE <<>>)

\* capmetrics, lines 128-132: the last text block of every message that has one,
\* whatever its role, appended to response
RECURSIVE ConcatLastTexts(_)
ConcatLastTexts(th) ==
    IF th = <<>> THEN <<>>
    ELSE LET texts == TextMessages(th[Len(th)])
         IN  ConcatLastTexts(SubSeq(th, 1, Len(th) - 1))
                \o (IF texts = <<>> THEN <<>> ELSE texts[Len(texts)].value)

\* s.rstrip(chars)
RECURSIVE RStripChars(_, _)
RStripChars(s, chars) ==
    IF Len(s) > 0 /\ s[Len(s)] \in chars
    THEN RStripChars(SubSeq(s, 1, Len(s) - 1), chars)
    ELSE s

\* _extract_first_url: re.search(r"(https?://\S+)", text), then
\* .rstrip(").,]"); None for an empty text or no match
ExtractFirstUrl(s) ==
    LET starts == {k \in 1..Len(s) :
                      /\ SchemeEnd(s, k, FALSE) > 0
                      /\ SchemeEnd(s, k, FALSE) <= Len(s)
                      /\ ~IsSpace(s[SchemeEnd(s, k, FALSE)])}
    IN  IF starts = {} THEN NoText
        ELSE LET k == CHOOSE x \in starts : \A y \in starts : x <= y
                 ends == {j \in k..(Len(s) + 1) : j = Len(s) + 1 \/ IsSpace(s[j])}
                 e == CHOOSE x \in ends : \A y \in ends : x <= y
             IN  FoundText(RStripChars(Slice(s, k, e), {")", ".", ",", "]"}))

\* raw_text[:300]
RAW_TEXT_SHOWN == 300

\* chart, lines 188-204: what the tool returns for the agent's text
ChartResult(raw_text) ==
    IF StartsAt(raw_text, 1, ERROR_PREFIX) THEN raw_text
    ELSE LET url == ExtractFirstUrl(raw_text)
         IN  IF url.found /\ Len(url.value) > 0 THEN url.value
             ELSE CHART_NO_URL \o
                    Slice(raw_text, 1, (IF Len(raw_text) < RAW_TEXT_SHOWN
                                        THEN Len(raw_text) ELSE RAW_TEXT_SHOWN) + 1)

\* the text the shortcut leaves the tool with, empty when there is none:
\* chart trims it
ShortcutText(t, last) ==
    IF ~last.found THEN <<>>
    ELSE IF t = "chart" THEN Strip(last.value)
    ELSE last.value

\* whether the tool goes on to the scan of the whole thread after the shortcut:
\* aggregator when the shortcut gave None, processbehavior and chart when it left
\* them with an empty text
NeedsFallback(t, last) ==
    IF t = "aggregator" THEN ~last.found ELSE Len(ShortcutText(t, last)) = 0

\* the text the scan of the whole thread leaves the tool with
FallbackText(t, th) ==
    CASE t = "aggregator" -> Join(CollectAgentTexts(th), <<"\n", "\n">>)
      [] t = "processbehavior" -> Join(CollectAgentTexts(th), <<"\n", "\n">>)
      [] t = "chart" -> Strip(Join(CollectAgentTexts(th), <<"\n">>))
      [] t = "capmetrics" -> ConcatLastTexts(th)

\* aggregator, lines 208-212: what the tool returns after the scan
AggregatorFallbackResult(th) ==
    IF CollectAgentTexts(th) = <<>> THEN AGGREGATOR_NO_TEXT
    ELSE FallbackText("aggregator", th)

\* what processbehavior, chart and capmetrics return for the text they are left
\* with when they delete their agent
ToolResult(t, resp) ==
    CASE t = "processbehavior" -> IF Len(resp) = 0 THEN BEHAVIOR_NO_TEXT ELSE resp
      [] t = "chart" -> ChartResult(resp)
      [] t = "capmetrics" -> resp

\* the inputs of the tools: o_processbehavior and o_capmetrics for the
\* aggregator, one str for the others
AgentInputs(t) ==
    IF t = "aggregator"
    THEN {[type |-> "inputs", o_processbehavior |-> b, o_capmetrics |-> c] :
            b, c \in {<<>>, DataPoints}}
    ELSE {Str(DataPoints)}

\* the state the renderer and the report writer keep, untouched by the agent tools
otherVars ==
    <<content, lines, idx, html_parts, in_list, in_ordered_list, html_body, text,
      rule, html_document, printed, store>>

InitAgent ==
    /\ pc = "config"
    /\ tool \in Tools
    /\ arg \in AgentInputs(tool)
    /\ env \in {Settings \ unset : unset \in SUBSET RequiredSettings(tool)}
    /\ waited = 0
    /\ run_status = "none"
    /\ thread = <<>>
    /\ calls = {}
    /\ response = <<>>
    /\ store = [containers |-> {}, blobs |-> <<>>]
    /\ content = <<>>
    /\ lines = <<>>
    /\ idx = 0
    /\ html_parts = <<>>
    /\ in_list = FALSE
    /\ in_ordered_list = FALSE
    /\ html_body = <<>>
    /\ text = <<>>
    /\ rule = 0
    /\ html_document = Unbound
    /\ printed = <<>>
    /\ outcome = Running

\* Configure with the aggregator's test of its inputs moved before the test of
\* its settings
Configure_InputsFirst ==
    /\ pc = "config"
    /\ IF tool = "aggregator" /\ Len(arg.o_processbehavior) = 0
          /\ Len(arg.o_capmetrics) = 0
       THEN outcome' = Returned(AGGREGATOR_NO_INPUT) /\ pc' = "done" /\ calls' = calls
       ELSE IF CheckedSettings(tool) \ env # {}
       THEN outcome' = Raised("RuntimeError", "must be set") /\ pc' = "done"
            /\ calls' = calls
       ELSE /\ calls' = calls \cup {"ClientSecretCredential"}
            /\ outcome' = outcome
            /\ pc' = "client"
    /\ UNCHANGED <<arg, tool, env, waited, run_status, thread, response, otherVars>>

\* the settings are read and the credential is built; the aggregator raises
\* when a setting it tests is unset (lines 48-51) and returns at once when it
\* was given nothing to aggregate (lines 80-81)
Configure ==
    /\ pc = "config"
    /\ IF CheckedSettings(tool) \ env # {}
       THEN /\ outcome' = Raised("RuntimeError", "must be set")
            /\ pc' = "done"
            /\ calls' = calls
       ELSE /\ calls' = calls \cup {"ClientSecretCredential"}
            /\ IF tool = "aggregator" /\ Len(arg.o_processbehavior) = 0
                  /\ Len(arg.o_capmetrics) = 0
               THEN outcome' = Returned(AGGREGATOR_NO_INPUT) /\ pc' = "done"
               ELSE outcome' = outcome /\ pc' = "client"
    /\ UNCHANGED <<arg, tool, env, waited, run_status, thread, response, otherVars>>

\* AgentsClient(endpoint=project_endpoint, credential=credential); what the
\* constructor does with endpoint=None is the library's choice
CreateClient ==
    /\ pc = "client"
    /\ calls' = calls \cup {"AgentsClient"}
    /\ \/ pc' = "start" /\ outcome' = outcome
       \/ /\ "PROJECT_ENDPOINT" \notin env
          /\ outcome' = Raised("ValueError", "endpoint")
          /\ pc' = "done"
    /\ UNCHANGED <<arg, tool, env, waited, run_status, thread, response, otherVars>>

\* the first operation the tool asks of the service
FirstCall(t) == IF CreatesAgent(t) THEN "create_agent" ELSE "threads.create"

\* the operations up to the start of the run
SetupCalls(t) ==
    {FirstCall(t), "threads.create", "messages.create", "runs.create_and_process"}

\* create_agent (not the aggregator), threads.create, messages.create and
\* runs.create_and_process; without an endpoint the first request fails, and a
\* create_agent without a model is the service's to accept or to reject
StartRun ==
    /\ pc = "start"
    /\ \/ /\ "PROJECT_ENDPOINT" \in env
          /\ calls' = calls \cup SetupCalls(tool)
          /\ thread' = <<UserMessage(tool, arg)>>
          /\ pc' = "poll"
          /\ outcome' = outcome
       \/ /\ "PROJECT_ENDPOINT" \notin env
          /\ calls' = calls \cup {FirstCall(tool)}
          /\ outcome' = Raised("ServiceRequestError", FirstCall(tool))
          /\ pc' = "done"
          /\ thread' = thread
       \/ /\ "PROJECT_ENDPOINT" \in env
          /\ CreatesAgent(tool)
          /\ "MODEL_DEPLOYMENT_NAME" \notin env
          /\ calls' = calls \cup {"create_agent"}
          /\ outcome' = Raised("HttpResponseError", "create_agent")
          /\ pc' = "done"
          /\ thread' = thread
    /\ UNCHANGED <<arg, tool, env, waited, run_status, response, otherVars>>

\* run.status as the service reports it
Statuses == {"queued", "in_progress", "completed", "succeeded", "failed", "cancelled"}

\* PollStep with a cancelled run taken for one that is still running
PollStep_CancelledKeepsPolling(t, status, w) ==
    IF status \in {"completed", "succeeded"}
    THEN [pc |-> IF t = "capmetrics" THEN "list" ELSE "shortcut",
          waited |-> w, outcome |-> Running]
    ELSE IF status = "failed"
    THEN [pc |-> "done", waited |-> w, outcome |-> Raised("RuntimeError", status)]
    ELSE IF ~ImportsTime(t)
    THEN [pc |-> "done", waited |-> w, outcome |-> Raised("NameError", "time")]
    ELSE IF HasTimeout(t) /\ w + 1 > MaxWait(t)
    THEN [pc |-> "done", waited |-> w + 1, outcome |-> Raised("TimeoutError", status)]
    ELSE [pc |-> "poll", waited |-> w + 1, outcome |-> Running]

\* PollStep with the timeout raised as soon as the wait reaches the budget
PollStep_TimeoutAtBudget(t, status, w) ==
    IF status \in {"completed", "succeeded"}
    THEN [pc |-> IF t = "capmetrics" THEN "list" ELSE "shortcut",
          waited |-> w, outcome |-> Running]
    ELSE IF status \in {"failed", "cancelled"}
    THEN [pc |-> "done", waited |-> w, outcome |-> Raised("RuntimeError", status)]
    ELSE IF ~ImportsTime(t)
    THEN [pc |-> "done", waited |-> w, outcome |-> Raised("NameError", "time")]
    ELSE IF HasTimeout(t) /\ w + 1 >= MaxWait(t)
    THEN [pc |-> "done", waited |-> w + 1, outcome |-> Raised("TimeoutError", status)]
    ELSE [pc |-> "poll", waited |-> w + 1, outcome |-> Running]

\* one turn of the poll loop after runs.get returned status, w seconds waited so
\* far: break, raise RuntimeError with the status, or sleep a second and, where
\* the tool counts them, raise TimeoutError past max_wait_seconds; capmetrics
\* has no time module to sleep with
PollStep(t, status, w) ==
    IF status \in {"completed", "succeeded"}
    THEN [pc |-> IF t = "capmetrics" THEN "list" ELSE "shortcut",
          waited |-> w, outcome |-> Running]
    ELSE IF status \in {"failed", "cancelled"}
    THEN [pc |-> "done", waited |-> w, outcome |-> Raised("RuntimeError", status)]
    ELSE IF ~ImportsTime(t)
    THEN [pc |-> "done", waited |-> w, outcome |-> Raised("NameError", "time")]
    ELSE IF HasTimeout(t) /\ w + 1 > MaxWait(t)
    THEN [pc |-> "done", waited |-> w + 1, outcome |-> Raised("TimeoutError", status)]
    ELSE [pc |-> "poll", waited |-> w + 1, outcome |-> Running]

\* one turn of "while True": runs.get, then PollStep; when the run has
\* succeeded the thread holds what the agent wrote
Poll ==
    /\ pc = "poll"
    /\ HasTimeout(tool) \/ waited < MaxSleeps
    /\ calls' = calls \cup {"runs.get"}
    /\ \E status \in Statuses :
          /\ run_status' = status
          /\ pc' = PollStep(tool, status, waited).pc
          /\ waited' = PollStep(tool, status, waited).waited
          /\ outcome' = PollStep(tool, status, waited).outcome
          /\ IF status \in {"completed", "succeeded"}
             THEN thread' \in ThreadsOf(tool, arg)
             ELSE thread' = thread
    /\ UNCHANGED <<arg, tool, env, response, otherVars>>

\* messages.get_last_message_text_by_role and what the tool does with its
\* result: the aggregator returns the text at once
Shortcut ==
    /\ pc = "shortcut"
    /\ calls' = calls \cup {"messages.get_last_message_text_by_role"}
    /\ response' = ShortcutText(tool, LastMessageTextByRole(thread, "agent"))
    /\ IF NeedsFallback(tool, LastMessageTextByRole(thread, "agent"))
       THEN pc' = "list" /\ outcome' = outcome
       ELSE IF tool = "aggregator"
       THEN pc' = "done" /\ outcome' = Returned(response')
       ELSE pc' = "cleanup" /\ outcome' = outcome
    /\ UNCHANGED <<arg, tool, env, waited, run_status, thread, otherVars>>

\* messages.list in ascending order and the scan of the thread; the aggregator
\* returns from inside the with block
Fallback ==
    /\ pc = "list"
    /\ calls' = calls \cup {"messages.list"}
    /\ response' = FallbackText(tool, thread)
    /\ IF tool = "aggregator"
       THEN pc' = "done" /\ outcome' = Returned(AggregatorFallbackResult(thread))
       ELSE pc' = "cleanup" /\ outcome' = outcome
    /\ UNCHANGED <<arg, tool, env, waited, run_status, thread, otherVars>>

\* delete_agent, then the return
Cleanup ==
    /\ pc = "cleanup"
    /\ calls' = calls \cup {"delete_agent"}
    /\ outcome' = Returned(ToolResult(tool, response))
    /\ pc' = "done"
    /\ UNCHANGED <<arg, tool, env, waited, run_status, thread, response, otherVars>>

NextAgent ==
    Configure \/ CreateClient \/ StartRun \/ Poll \/ Shortcut \/ Fallback \/ Cleanup

SpecAgent == InitAgent /\ [][NextAgent]_vars

\* ---------------------------------------------------------------------------
\* Properties of the agent tools
\* ---------------------------------------------------------------------------

\* whether the call has left the poll loop by an exception
RaisedInLoop ==
    pc = "done" /\ outcome.kind = "raised" /\ "runs.get" \in calls

\* C12: in every agent tool the poll loop terminates: no tool is still polling
\* after it slept longer than the longest wait budget, a loop left by an
\* exception is left either by the RuntimeError of a failed or cancelled run
\* or, for a run that stayed queued or in progress, by a TimeoutError, and a
\* completed or succeeded run leaves the loop without an exception
C12_PollLoopTerminates ==
    /\ pc = "poll" => waited <= BEHAVIOR_MAX_WAIT
    /\ RaisedInLoop =>
          \/ outcome.exception = "RuntimeError" /\ run_status \in {"failed", "cancelled"}
          \/ outcome.exception = "TimeoutError" /\ run_status \in {"queued", "in_progress"}
    /\ run_status \in {"completed", "succeeded"} => ~RaisedInLoop

\* the operations that read the thread back
RetrievalCalls == {"messages.get_last_message_text_by_role", "messages.list"}

RunSucceeded == pc = "done" /\ run_status \in {"completed", "succeeded"}

\* the thread holds no agent text: the shortcut gives nothing and the scan of
\* the agent's messages collects nothing
NoAgentText(th) ==
    /\ ~LastMessageTextByRole(th, "agent").found
    /\ CollectAgentTexts(th) = <<>>

\* the fixed texts the tools return in place of a missing answer
Placeholders == {AGGREGATOR_NO_TEXT, BEHAVIOR_NO_TEXT, CHART_NO_URL}

\* C14: in every agent tool a successful run whose thread holds no agent text
\* ends without an exception and returns a fixed, non-empty placeholder
C14_PlaceholderForNoText ==
    (RunSucceeded /\ NoAgentText(thread)) =>
        /\ outcome.kind = "returned"
        /\ outcome.value \in Placeholders
        /\ Len(outcome.value) > 0

\* the tools that return the agent's text itself; chart returns the URL in it
TextTools == {"aggregator", "processbehavior", "capmetrics"}

\* what the shortcut yields for the thread, as a set of at most one text
ShortcutYield(th) ==
    IF LastMessageTextByRole(th, "agent").found
    THEN {LastMessageTextByRole(th, "agent").value}
    ELSE {}

\* C15: in every agent tool the text returned after a successful run is the
\* agent's only: the user prompt does not appear in it, and a tool that returns
\* the text itself returns the text of the last agent message when the shortcut
\* yields a text that is not empty, and otherwise the shortcut's text, the texts
\* of the agent's messages joined oldest first, or its placeholder
C15_AgentAuthoredOnly ==
    (RunSucceeded /\ outcome.kind = "returned") =>
        /\ ~Contains(outcome.value, DataPoints)
        /\ tool \in TextTools =>
              IF ShortcutYield(thread) \notin {{}, {<<>>}}
              THEN {outcome.value} = ShortcutYield(thread)
              ELSE outcome.value \in
                      ShortcutYield(thread) \cup Placeholders
                          \cup {Join(CollectAgentTexts(thread), <<"\n", "\n">>)}

\* C16: in every agent tool an unset required setting ends the call at once
\* with the missing-configuration error, before a credential or a client is
\* built and before any operation of the agent service
C16_MissingConfigFailsFast ==
    (RequiredSettings(tool) \ env # {} /\ pc # "config") =>
        /\ pc = "done"
        /\ outcome = Raised("RuntimeError", "must be set")
        /\ calls = {}

\* whether s is an http(s) URL without blank and without one of the trailing
\* characters the tool strips
IsChartUrl(s) ==
    /\ StartsAt(s, 1, <<"h", "t", "t", "p", ":", "/", "/">>)
          \/ StartsAt(s, 1, <<"h", "t", "t", "p", "s", ":", "/", "/">>)
    /\ \A k \in 1..Len(s) : ~IsSpace(s[k])
    /\ s[Len(s)] \notin {")", ".", ",", "]"}

\* C17: every call of the chart tool ends by returning a string, the first URL
\* of the agent's reply without its trailing punctuation or a message starting
\* with "ERROR:"; a run that ends failed or cancelled is reported by such a
\* message too
C17_ChartReturnsUrlOrError ==
    (tool = "chart" /\ pc = "done" /\ "runs.get" \in calls) =>
        /\ outcome.kind = "returned"
        /\ \/ StartsAt(outcome.value, 1, ERROR_PREFIX)
           \/ /\ IsChartUrl(outcome.value)
              /\ ExtractFirstUrl(response) = FoundText(outcome.value)

\* ---------------------------------------------------------------------------
\* reportwriter (src/report_writer.py): invocations that share one blob store.
\* pc, arg, calls and outcome hold one value per invocation; store is the
\* storage account
\* ---------------------------------------------------------------------------

\* how many invocations run against the account
MaxInvocations == 2

Invocations == 1..MaxInvocations

HTML_EXT == ".html"

OUTPUT_SUFFIX == "-output"

\* container_name + "-output"
OutputContainer(container_name) == container_name \o <<OUTPUT_SUFFIX>>

\* blob_name.replace('.html', '') if blob_name.endswith('.html') else blob_name
BaseName(blob_name) ==
    IF Len(blob_name) > 0 /\ blob_name[Len(blob_name)] = HTML_EXT
    THEN SelectSeq(blob_name, LAMBDA part : part # HTML_EXT)
    ELSE blob_name

\* f"{base_name}-{uuid.uuid4()}.html", the uuid being one no other invocation draws
BlobName(blob_name, uuid) == BaseName(blob_name) \o <<"-", uuid, HTML_EXT>>

\* blob_client.url
BlobUrl(account_name, container, blob) ==
    <<"https://">> \o account_name \o <<".blob.core.windows.net", "/">>
        \o container \o <<"/">> \o blob

ReportInputs ==
    [account_name : {<<"acct">>},
     container_name : {<<"c">>, <<"d">>},
     blob_name : {<<"r">>, <<"r", HTML_EXT>>, <<HTML_EXT, "r", HTML_EXT>>},
     html_content : {<<"<p>x</p>">>}]

\* the containers the account may hold before the first invocation
InitialContainers ==
    {{}, {[name |-> OutputContainer(<<"c">>), public_access |-> "none"]}}

ContainerExists(name) == \E c \in store.containers : c.name = name

InitReport ==
    /\ pc = [i \in Invocations |-> "exists"]
    /\ arg \in [Invocations -> ReportInputs]
    /\ calls = [i \in Invocations |-> <<>>]
    /\ outcome = [i \in Invocations |-> Running]
    /\ \E cs \in InitialContainers : store = [containers |-> cs, blobs |-> <<>>]
    /\ printed = <<>>
    /\ tool = "reportwriter"
    /\ env = {}
    /\ waited = 0
    /\ run_status = "none"
    /\ thread = <<>>
    /\ response = <<>>
    /\ content = <<>>
    /\ lines = <<>>
    /\ idx = 0
    /\ html_parts = <<>>
    /\ in_list = FALSE
    /\ in_ordered_list = FALSE
    /\ html_body = <<>>
    /\ text = <<>>
    /\ rule = 0
    /\ html_document = Unbound

\* the state of the renderer and the agent tools, untouched by reportwriter
reportOtherVars ==
    <<arg, tool, env, waited, run_status, thread, response, content, lines, idx,
      html_parts, in_list, in_ordered_list, html_body, text, rule, html_document>>

\* lines 16-33: the names, the clients and container_client.exists()
CheckExists(i) ==
    /\ pc[i] = "exists"
    /\ calls' = [calls EXCEPT ![i] =
            Append(@, [op |-> "exists",
                       result |-> ContainerExists(OutputContainer(arg[i].container_name))])]
    /\ pc' = [pc EXCEPT ![i] =
            IF ContainerExists(OutputContainer(arg[i].container_name))
            THEN "upload" ELSE "create"]
    /\ UNCHANGED <<outcome, store, printed, reportOtherVars>>

\* lines 34-35: create_container(public_access="blob") and the print; the
\* service refuses to create a container that exists
CreateContainer(i) ==
    /\ pc[i] = "create"
    /\ calls' = [calls EXCEPT ![i] = Append(@, [op |-> "create_container"])]
    /\ IF ContainerExists(OutputContainer(arg[i].container_name))
       THEN /\ outcome' = [outcome EXCEPT ![i] =
                    Raised("ResourceExistsError", "ContainerAlreadyExists")]
            /\ pc' = [pc EXCEPT ![i] = "done"]
            /\ UNCHANGED <<store, printed>>
       ELSE /\ store' = [store EXCEPT !.containers = @ \cup
                           {[name |-> OutputContainer(arg[i].container_name),
                             public_access |-> "blob"]}]
            /\ printed' = Append(printed, <<"Created container: ">>
                                             \o OutputContainer(arg[i].container_name))
            /\ pc' = [pc EXCEPT ![i] = "upload"]
            /\ outcome' = outcome
    /\ UNCHANGED reportOtherVars

\* lines 38-54: upload_blob(html_content, overwrite=True, content_settings) and
\* the return of blob_client.url
Upload(i) ==
    /\ pc[i] = "upload"
    /\ calls' = [calls EXCEPT ![i] = Append(@, [op |-> "upload_blob"])]
    /\ IF ContainerExists(OutputContainer(arg[i].container_name))
       THEN /\ store' = [store EXCEPT !.blobs = Append(@,
                    [container |-> OutputContainer(arg[i].container_name),
                     name |-> BlobName(arg[i].blob_name, i),
                     data |-> arg[i].html_content,
                     content_type |-> "text/html"])]
            /\ outcome' = [outcome EXCEPT ![i] =
                    Returned(BlobUrl(arg[i].account_name,
                                     OutputContainer(arg[i].container_name),
                                     BlobName(arg[i].blob_name, i)))]
       ELSE /\ outcome' = [outcome EXCEPT ![i] =
                    Raised("ResourceNotFoundError", "ContainerNotFound")]
            /\ store' = store
    /\ pc' = [pc EXCEPT ![i] = "done"]
    /\ UNCHANGED <<printed, reportOtherVars>>

NextReport ==
    \E i \in Invocations : CheckExists(i) \/ CreateContainer(i) \/ Upload(i)

SpecReport == InitReport /\ [][NextReport]_vars

\* how many times invocation i asked for the operation
CallCount(i, op) == Cardinality({k \in 1..Len(calls[i]) : calls[i][k].op = op})

\* the blobs of the store that invocation i wrote
BlobsOf(i) ==
    {k \in 1..Len(store.blobs) : store.blobs[k].name = BlobName(arg[i].blob_name, i)}

\* C18: every invocation of reportwriter that has ended uploaded its content
\* exactly once, into the container <container_name>-output, which exists; it
\* created that container, with public blob access, exactly when its existence
\* check found none, and it returned the URL of the blob it uploaded
C18_UploadsOnceToOutputContainer ==
    \A i \in Invocations :
        pc[i] = "done" =>
            /\ CallCount(i, "upload_blob") = 1
            /\ Cardinality(BlobsOf(i)) = 1
            /\ \A k \in BlobsOf(i) :
                  /\ store.blobs[k].container = OutputContainer(arg[i].container_name)
                  /\ store.blobs[k].data = arg[i].html_content
                  /\ outcome[i] = Returned(BlobUrl(arg[i].account_name,
                                        store.blobs[k].container, store.blobs[k].name))
            /\ ContainerExists(OutputContainer(arg[i].container_name))
            /\ CallCount(i, "create_container") = (IF calls[i][1].result THEN 0 ELSE 1)

\* ---------------------------------------------------------------------------
\* Further properties of the block parser (SpecParse)
\* ---------------------------------------------------------------------------

ListTags == {UL_OPEN, UL_CLOSE, OL_OPEN, OL_CLOSE}

ContentTags == {H2, H3, LI, BLOCKQUOTE, P}

\* the fragments that are not list tags, in order
ContentParts(parts) == SelectSeq(parts, LAMBDA f : f \notin ListTags)

\* the first n lines that hold more than whitespace, trimmed and in order
TrimmedNonBlank(ls, n) ==
    LET keep == SelectSeq(SubSeq(ls, 1, n), LAMBDA l : Len(Strip(l)) > 0)
    IN  [k \in 1..Len(keep) |-> Strip(keep[k])]

\* whether the fragment is <tag>...</tag>
HasTag(f, tag) ==
    /\ Len(f) >= 2 * Len(tag) + 5
    /\ StartsAt(f, 1, <<"<">> \o tag \o <<">">>)
    /\ StartsAt(f, Len(f) - Len(tag) - 2, <<"<", "/">> \o tag \o <<">">>)

\* C19: after any number of lines of the normalized content, the fragments
\* other than list tags are as many as the non-blank lines read so far and each
\* is an <h2>, <h3>, <li>, <blockquote> or <p> element; at the end they are the
\* fragments of the non-blank trimmed lines, one for each, in line order
C19_OneFragmentPerLine ==
    /\ pc = "lines" =>
          /\ Len(ContentParts(html_parts)) = Len(TrimmedNonBlank(lines, idx))
          /\ \A k \in 1..Len(html_parts) :
                html_parts[k] \in ListTags
                    \/ \E tag \in ContentTags : HasTag(html_parts[k], tag)
    /\ pc = "parsed" =>
          ContentParts(html_parts) =
              [k \in 1..Len(TrimmedNonBlank(lines, Len(lines))) |->
                  ContentFragment(KindOf(TrimmedNonBlank(lines, Len(lines))[k]),
                                  TrimmedNonBlank(lines, Len(lines))[k])]

\* a parsed input with a blank line between two non-blank lines, a header and
\* a list among its fragments
C19_Witness ==
    /\ pc = "parsed"
    /\ \E k \in 2..(Len(lines) - 1) : Len(Strip(lines[k])) = 0
    /\ Len(ContentParts(html_parts)) >= 2
    /\ Len(ContentParts(html_parts)) < Len(lines)
    /\ \E k \in 1..Len(html_parts) : HasTag(html_parts[k], H2)
    /\ UL_OPEN \in {html_parts[k] : k \in 1..Len(html_parts)}

\* whether the trimmed line starts with "N. **": digits, a dot, whitespace and
\* the opening of a bold phrase
IsBoldNumbered(line) ==
    LET d == DigitEnd(line, 1)
        k == SpaceEnd(line, d + 1)
    IN  d > 1 /\ At(line, d) = "." /\ k > d + 1 /\ StartsAt(line, k, <<"*", "*">>)

\* whether the trimmed line starts with "- **"
IsBoldBullet(line) ==
    /\ StartsAt(line, 1, <<"-", " ">>)
    /\ StartsAt(line, SpaceEnd(line, 2), <<"*", "*">>)

\* whether the fragment is an <li> element
IsItem(f) == HasTag(f, LI)

\* C20: a bold numbered item that is not the first line of the normalized
\* content has a blank line before it and its <li> comes right after a new
\* <ol>, so no two such items share an <ol>; a bold "- " item that is not the
\* first line has no blank line before it, and after another unordered item
\* its <li> comes right after that item's <li>, in the same <ul>
C20_BoldItemsGrouping ==
    (pc = "lines" /\ idx >= 2) =>
        /\ IsBoldNumbered(Strip(lines[idx])) =>
              /\ Len(Strip(lines[idx - 1])) = 0
              /\ in_ordered_list /\ ~in_list
              /\ Len(html_parts) >= 2
              /\ IsItem(html_parts[Len(html_parts)])
              /\ html_parts[Len(html_parts) - 1] = OL_OPEN
        /\ IsBoldBullet(Strip(lines[idx])) =>
              /\ Len(Strip(lines[idx - 1])) > 0
              /\ in_list /\ ~in_ordered_list
              /\ IsItem(html_parts[Len(html_parts)])
              /\ KindAt(idx - 1) = "ul_item" =>
                    /\ Len(html_parts) >= 3
                    /\ IsItem(html_parts[Len(html_parts) - 1])

\* the last line of the example has been read: each numbered item has its own
\* <ol>, the two unordered items share the <ul>
C20_Witness ==
    /\ pc = "lines"
    /\ arg = Str(BoldItemsExample)
    /\ idx = Len(lines)
    /\ Len(html_parts) = 9
    /\ [k \in 1..9 |-> IF IsItem(html_parts[k]) THEN LI ELSE html_parts[k]]
          = <<OL_OPEN, LI, OL_CLOSE, OL_OPEN, LI, OL_CLOSE, UL_OPEN, LI, LI>>

\* ---------------------------------------------------------------------------
\* Further properties of the agent tools (SpecAgent)
\* ---------------------------------------------------------------------------

\* the invocation created an agent: create_agent returned and the tool went on
\* to create the thread
AgentCreated == CreatesAgent(tool) /\ "threads.create" \in calls

\* C21: an invocation of chart, capmetrics or processbehavior that created an
\* agent has called delete_agent by the time it returns or raises, whether the
\* run completed, ended failed or cancelled, or the poll timed out
C21_AgentDeletedOnExit ==
    (pc = "done" /\ AgentCreated) => "delete_agent" \in calls

\* whether the call ended with the TimeoutError of the poll loop
TimedOut == outcome.kind = "raised" /\ outcome.exception = "TimeoutError"

\* C22: in aggregator (budget 30) and processbehavior (budget 60) every poll
\* is made with at most the budget waited, so a run that never ends is polled
\* budget + 1 times; TimeoutError is raised exactly when the wait has grown to
\* budget + 1, with the status of the poll before the last sleep and no poll
\* after it, and a run seen completed or succeeded at one of those polls is not
\* timed out
C22_TimeoutPastBudget ==
    HasTimeout(tool) =>
        /\ pc = "poll" => waited <= MaxWait(tool)
        /\ TimedOut <=> waited = MaxWait(tool) + 1
        /\ TimedOut => pc = "done" /\ run_status \in {"queued", "in_progress"}
        /\ run_status \in {"completed", "succeeded"} =>
              waited <= MaxWait(tool) /\ outcome.kind # "raised"

\* aggregator has slept 31 times without seeing a terminal status
C22_Witness ==
    /\ tool = "aggregator"
    /\ waited = AGGREGATOR_MAX_WAIT + 1
    /\ run_status = "in_progress"
    /\ outcome = Raised("TimeoutError", "in_progress")

\* the client of the agent service and the operations that create a thread, a
\* message or a run on it
ServiceCalls == {"AgentsClient", "runs.get"} \cup SetupCalls("aggregator")

\* the aggregator was given nothing to aggregate
EmptyInputs ==
    tool = "aggregator" /\ Len(arg.o_processbehavior) = 0 /\ Len(arg.o_capmetrics) = 0

\* C23: aggregator called with both inputs empty ends at once, with no client,
\* thread, message or run created: it returns the fixed "No process behavior
\* or capability information ..." message when its settings are set, and
\* raises the missing-configuration error when one of them is not
C23_EmptyInputsShortCircuit ==
    (EmptyInputs /\ pc # "config") =>
        /\ pc = "done"
        /\ calls \cap ServiceCalls = {}
        /\ outcome = IF CheckedSettings(tool) \ env = {}
                     THEN Returned(AGGREGATOR_NO_INPUT)
                     ELSE Raised("RuntimeError", "must be set")

\* the short-circuit was taken with the settings in place
C23_Witness ==
    /\ EmptyInputs
    /\ CheckedSettings(tool) \subseteq env
    /\ pc = "done"
    /\ calls = {"ClientSecretCredential"}
    /\ outcome = Returned(AGGREGATOR_NO_INPUT)

\* C24: every ">" that follows whitespace starts a blockquote wherever it
\* stands: a line that starts with ">" after another line has a blank line
\* before it and gives a <blockquote> outside any list; the input A > B gives
\* the paragraph of A and then the blockquote of B, and the input A->B, whose
\* ">" follows no whitespace, gives one paragraph holding A->B
C24_QuoteMarkerAnywhere ==
    /\ (pc = "lines" /\ idx >= 1 /\ StartsAt(Strip(lines[idx]), 1, <<">">>)) =>
          /\ HasTag(html_parts[Len(html_parts)], BLOCKQUOTE)
          /\ ~in_list /\ ~in_ordered_list
          /\ idx >= 2 => Len(Strip(lines[idx - 1])) = 0
    /\ pc \in {"lines", "parsed"} =>
          \A k \in 2..Len(content) :
              (content[k] = ">" /\ IsSpace(content[k - 1])) =>
                  /\ content[k - 1] = "\n"
                  /\ k >= 3 => content[k - 2] = "\n"
    /\ pc = "parsed" =>
          \A a, b \in PlainTexts :
              /\ arg = Str(a \o SPACED_QUOTE \o b) =>
                    html_parts = <<Wrap(P, a), Wrap(BLOCKQUOTE, b)>>
              /\ arg = Str(a \o ARROW \o b) =>
                    html_parts = <<Wrap(P, a \o ARROW \o b)>>

\* the input "a b > A" has been parsed into a paragraph and a blockquote
C24_Witness ==
    /\ pc = "parsed"
    /\ arg = Str(<<"a", " ", "b">> \o SPACED_QUOTE \o <<"A">>)
    /\ html_parts = <<Wrap(P, <<"a", " ", "b">>), Wrap(BLOCKQUOTE, <<"A">>)>>

====
